---- MODULE Spec2Model ----
(***************************************************************************)
(* Model of synthetic/sssa.py: the SSA LightningModule.                    *)
(*                                                                         *)
(* The object's configuration and running-best fields are the state; each  *)
(* public method is one action that models the whole method body.  The     *)
(* encoder/decoder network, the distributions and the metric routines are  *)
(* external numeric code: the numbers they produce (recon_loss,            *)
(* kld_content, kld_style, r2, mcc) are inputs of the actions.  Numbers    *)
(* are integers, except in the flow routing where IEEE non-finite values   *)
(* matter and a value is either Fin(n) or NaN.                             *)
(***************************************************************************)
EXTENDS Integers, Sequences, FiniteSets, TLC

\* ------------------------------------------------------------------ bounds
MaxSteps == 3       \* validation steps in a run of the tracker
MaxEvals == 2       \* validation steps in a run of the whole lifecycle
MaxBatch == 2       \* rows in a batch

\* ------------------------------------------------------- inputs enumerated
Families == {"gaussian", "bernoulli", "sigmoid_gaussian", "laplace"}

adam    == <<97, 100, 97, 109>>                    \* "adam"
Adam    == <<65, 100, 97, 109>>                    \* "Adam"
rmsprop == <<114, 109, 115, 112, 114, 111, 112>>   \* "rmsprop"
sgd     == <<115, 103, 100>>                       \* "sgd"
OptimizerNames == {adam, Adam, rmsprop, sgd}

BetaVals  == {0, 2}
GammaVals == {0, 3}
ReconVals == {1, 2}
KldVals   == {-1, 1}
R2Vals    == {-1, 1}         \* lifecycle runs
MccVals   == {1}
R2Obs     == -2 .. 2         \* tracker runs
MccObs    == -1 .. 1

\* ------------------------------------------------------------------- state
VARIABLES
    decoder_dist, optimizer, beta, gamma,                   \* configuration
    best_r2, best_mcc, best_sum, best_sum_mcc, best_sum_r2,
    r2_at_best_mcc, mcc_at_best_r2,                         \* running bests
    val_r2,                                                 \* self.val_r2: <<>> until set
    history,     \* (r2, mcc) of every completed validation_step, in order
    call,        \* the most recent method call and its batch size
    events,      \* terms the most recent call computed, in order
    sink,        \* scalars the most recent call gave to self.log, in order
    result,      \* what the most recent call returned or raised
    spline_list, batch_c, residuals, es, logabsdet          \* style routing

config  == <<decoder_dist, optimizer, beta, gamma>>
bests   == <<best_r2, best_mcc, best_sum, best_sum_mcc, best_sum_r2,
             r2_at_best_mcc, mcc_at_best_r2>>
tracker == <<bests, val_r2, history>>
last    == <<call, events, sink, result>>
routing == <<spline_list, batch_c, residuals, es, logabsdet>>
vars    == <<config, tracker, last, routing>>

Range(s) == {s[i] : i \in DOMAIN s}

\* ------------------------------------------------------------ return values
NoOptimizers == <<>>

Returned(v) ==
    [raised |-> "none", value |-> v, optimizers |-> NoOptimizers, schedulers |-> <<>>]

Raised(e) ==
    [raised |-> e, value |-> 0, optimizers |-> NoOptimizers, schedulers |-> <<>>]

Entry(n, v) == [name |-> n, value |-> v]

\* ---------------------------------------------------------------- __init__
InitBests ==
    /\ best_r2 = 0
    /\ best_mcc = 0
    /\ best_sum = 0
    /\ best_sum_mcc = 0
    /\ best_sum_r2 = 0
    /\ r2_at_best_mcc = 0
    /\ mcc_at_best_r2 = 0

InitLast ==
    /\ val_r2 = <<>>
    /\ history = <<>>
    /\ call = [op |-> "__init__", rows |-> 0]
    /\ events = <<>>
    /\ sink = <<>>
    /\ result = Returned(0)

NoRouting ==
    /\ spline_list = <<>>
    /\ batch_c = <<>>
    /\ residuals = <<>>
    /\ es = <<>>
    /\ logabsdet = <<>>

Init ==
    /\ decoder_dist \in Families
    /\ optimizer \in OptimizerNames
    /\ beta \in BetaVals
    /\ gamma \in GammaVals
    /\ InitBests
    /\ InitLast
    /\ NoRouting

\* ------------------------------------------------------ reconstruction_loss
\* The assertion on the batch size comes first; a family that matches no
\* branch leaves recon_loss unbound and the return statement raises.
ReconOutcomeNoAssert(rows, distribution) ==
    IF distribution \in {"bernoulli", "gaussian", "sigmoid_gaussian"}
    THEN "none"
    ELSE "UnboundLocalError"

ReconOutcome(rows, distribution) ==
    IF rows = 0 THEN "AssertionError"
    ELSE IF distribution \in {"bernoulli", "gaussian", "sigmoid_gaussian"}
         THEN "none"
         ELSE "UnboundLocalError"

\* ------------------------------------------------------------ the ELBO loss
ElboLossNoGamma(recon_loss, kld_content, kld_style) ==
    recon_loss + beta * kld_content + kld_style

ElboLoss(recon_loss, kld_content, kld_style) ==
    recon_loss + beta * kld_content + gamma * kld_style

\* Lines shared by training_step and validation_step: network, reconstruction
\* loss, the two KLD terms and the weighted sum.
LossPhase(rows, recon_loss, kld_content, kld_style) ==
    LET out == ReconOutcome(rows, decoder_dist) IN
    IF out # "none"
    THEN [raised |-> out, events |-> <<"net">>, loss |-> 0]
    ELSE [raised |-> "none",
          events |-> <<"net", "recon_loss", "kld_content", "kld_style", "loss">>,
          loss   |-> ElboLoss(recon_loss, kld_content, kld_style)]

\* ----------------------------------------------------------- training_step
training_stepTouchesBests(rows, recon_loss, kld_content, kld_style) ==
    LET p == LossPhase(rows, recon_loss, kld_content, kld_style) IN
    /\ call' = [op |-> "training_step", rows |-> rows]
    /\ events' = p.events
    /\ sink' = <<>>
    /\ result' = IF p.raised # "none" THEN Raised(p.raised) ELSE Returned(p.loss)
    /\ best_r2' = 0
    /\ UNCHANGED <<config, best_mcc, best_sum, best_sum_mcc, best_sum_r2,
                   r2_at_best_mcc, mcc_at_best_r2, val_r2, history, routing>>

training_step(rows, recon_loss, kld_content, kld_style) ==
    LET p == LossPhase(rows, recon_loss, kld_content, kld_style) IN
    /\ call' = [op |-> "training_step", rows |-> rows]
    /\ events' = p.events
    /\ IF p.raised # "none"
       THEN /\ sink' = <<>>
            /\ result' = Raised(p.raised)
       ELSE /\ sink' = << Entry("train_elbo_loss", p.loss),
                          Entry("train_recon_loss", recon_loss),
                          Entry("train_kld_content", kld_content),
                          Entry("train_kld_style", kld_style) >>
            /\ result' = Returned(p.loss)
    /\ UNCHANGED <<config, tracker, routing>>

\* ---------------------------------------------------------- validation_step
BestR2UpdateAlways(r2, mcc) ==
    [best |-> r2, paired |-> mcc]

BestR2Update(r2, mcc) ==
    IF r2 >= best_r2
    THEN [best |-> r2, paired |-> mcc]
    ELSE [best |-> best_r2, paired |-> mcc_at_best_r2]

BestMccUpdateStrict(r2, mcc) ==
    IF mcc > best_mcc
    THEN [best |-> mcc, paired |-> r2]
    ELSE [best |-> best_mcc, paired |-> r2_at_best_mcc]

BestMccUpdate(r2, mcc) ==
    IF mcc >= best_mcc
    THEN [best |-> mcc, paired |-> r2]
    ELSE [best |-> best_mcc, paired |-> r2_at_best_mcc]

BestSumUpdateStrict(r2, mcc) ==
    IF mcc + r2 > best_sum
    THEN [sum |-> mcc + r2, mcc |-> mcc, r2 |-> r2]
    ELSE [sum |-> best_sum, mcc |-> best_sum_mcc, r2 |-> best_sum_r2]

BestSumUpdate(r2, mcc) ==
    IF mcc + r2 >= best_sum
    THEN [sum |-> mcc + r2, mcc |-> mcc, r2 |-> r2]
    ELSE [sum |-> best_sum, mcc |-> best_sum_mcc, r2 |-> best_sum_r2]

validation_step(rows, recon_loss, kld_content, kld_style, r2, mcc) ==
    LET p  == LossPhase(rows, recon_loss, kld_content, kld_style)
        br == BestR2Update(r2, mcc)
        bm == BestMccUpdate(r2, mcc)
        bs == BestSumUpdate(r2, mcc)
    IN
    /\ call' = [op |-> "validation_step", rows |-> rows]
    /\ IF p.raised # "none"
       THEN /\ events' = p.events
            /\ sink' = <<>>
            /\ result' = Raised(p.raised)
            /\ UNCHANGED tracker
       ELSE /\ events' = p.events \o <<"r2", "mcc">>
            /\ best_r2' = br.best
            /\ mcc_at_best_r2' = br.paired
            /\ best_mcc' = bm.best
            /\ r2_at_best_mcc' = bm.paired
            /\ best_sum' = bs.sum
            /\ best_sum_mcc' = bs.mcc
            /\ best_sum_r2' = bs.r2
            /\ sink' = << Entry("val_mcc", mcc),
                          Entry("val_r2", r2),
                          Entry("val_elbo_loss", p.loss),
                          Entry("val_recon_loss", recon_loss),
                          Entry("val_kld_content", kld_content),
                          Entry("val_kld_style", kld_style),
                          Entry("best_r2", br.best),
                          Entry("mcc_at_best_r2", br.paired),
                          Entry("best_mcc", bm.best),
                          Entry("r2_at_best_mcc", bm.paired),
                          Entry("best_sum_mcc", bs.mcc),
                          Entry("best_sum_r2", bs.r2) >>
            /\ val_r2' = <<r2>>
            /\ history' = Append(history, [r2 |-> r2, mcc |-> mcc])
            /\ result' = Returned(p.loss)
    /\ UNCHANGED <<config, routing>>

\* ------------------------------------------- the methods that only compute
forward(rows) ==
    /\ call' = [op |-> "forward", rows |-> rows]
    /\ events' = <<"net">>
    /\ sink' = <<>>
    /\ result' = Returned(0)
    /\ UNCHANGED <<config, tracker, routing>>

reparameterize(mean, std, eps, random_sampling) ==
    /\ call' = [op |-> "reparameterize", rows |-> 0]
    /\ events' = <<>>
    /\ sink' = <<>>
    /\ result' = IF random_sampling THEN Returned(mean + eps * std) ELSE Returned(mean)
    /\ UNCHANGED <<config, tracker, routing>>

reconstruction_loss(rows, distribution, recon_loss) ==
    LET out == ReconOutcome(rows, distribution) IN
    /\ call' = [op |-> "reconstruction_loss", rows |-> rows]
    /\ events' = IF out = "none" THEN <<"recon_loss">> ELSE <<>>
    /\ sink' = <<>>
    /\ result' = IF out = "none" THEN Returned(recon_loss) ELSE Raised(out)
    /\ UNCHANGED <<config, tracker, routing>>

\* ------------------------------------------------------ configure_optimizers
\* str.lower() on ASCII: 'A'..'Z' (65..90) become 'a'..'z'.
Lower(s) ==
    [i \in 1 .. Len(s) |-> IF s[i] \in 65 .. 90 THEN s[i] + 32 ELSE s[i]]

OptimizerForFallback(name) ==
    IF Lower(name) = rmsprop
    THEN [Returned(0) EXCEPT !.optimizers = <<"RMSprop">>]
    ELSE [Returned(0) EXCEPT !.optimizers = <<"AdamW">>]

OptimizerFor(name) ==
    IF Lower(name) = adam
    THEN [Returned(0) EXCEPT !.optimizers = <<"AdamW">>]
    ELSE IF Lower(name) = rmsprop
         THEN [Returned(0) EXCEPT !.optimizers = <<"RMSprop">>]
         ELSE Raised("NotImplementedError")

configure_optimizers ==
    /\ call' = [op |-> "configure_optimizers", rows |-> 0]
    /\ events' = <<>>
    /\ sink' = <<>>
    /\ result' = OptimizerFor(optimizer)
    /\ UNCHANGED <<config, tracker, routing>>

\* ------------------------------------------------------------ specifications
Next ==
    \/ \E rows \in 0 .. MaxBatch, r \in ReconVals, kc \in KldVals, ks \in KldVals :
          training_step(rows, r, kc, ks)
    \/ \E rows \in 0 .. MaxBatch, r \in ReconVals, kc \in KldVals, ks \in KldVals,
          r2 \in R2Vals, mcc \in MccVals :
          /\ Len(history) < MaxEvals
          /\ validation_step(rows, r, kc, ks, r2, mcc)
    \/ \E rows \in 0 .. MaxBatch : forward(rows)
    \/ \E mean \in {0, 1}, std \in {1, 2}, eps \in {-1, 1}, rs \in BOOLEAN :
          reparameterize(mean, std, eps, rs)
    \/ \E rows \in 0 .. MaxBatch, d \in Families, r \in ReconVals :
          reconstruction_loss(rows, d, r)
    \/ configure_optimizers

Spec == Init /\ [][Next]_vars

\* -------------------------------------------- style KLD: the flow routing
nclass == 3
s_dim  == 2

\* A float is finite or NaN; NaN absorbs every operation, 0 * NaN included.
Fin(n) == [k |-> "fin", v |-> n]
NaN    == [k |-> "nan", v |-> 0]

FMul(a, m) == IF a.k = "nan" THEN NaN ELSE Fin(a.v * m)
FAdd(a, b) == IF a.k = "nan" \/ b.k = "nan" THEN NaN ELSE Fin(a.v + b.v)

\* One flow of the bank: the scaling x -> x * 2^a of every style dimension,
\* with log2|det J| = s_dim * a; a flow whose parameter is NaN is degenerate.
FlowParams == {Fin(0), Fin(1), NaN}
ResidVals  == {-1, 2}

Flow(a, x) ==
    IF a.k = "nan"
    THEN [es |-> [d \in 1 .. s_dim |-> NaN], logabsdet |-> NaN]
    ELSE [es |-> [d \in 1 .. s_dim |-> Fin(x[d] * 2 ^ a.v)],
          logabsdet |-> Fin(s_dim * a.v)]

\* F.one_hot(c, num_classes=nclass), one row
one_hotShifted(label) == [k \in 0 .. nclass - 1 |-> IF k = (label + 1) % nclass THEN 1 ELSE 0]

one_hot(label) == [k \in 0 .. nclass - 1 |-> IF k = label THEN 1 ELSE 0]

\* tensor.sum(1): the sum of f[0] .. f[n-1]
RECURSIVE SumAxis(_, _)
SumAxis(f, n) == IF n = 1 THEN f[0] ELSE FAdd(SumAxis(f, n - 1), f[n - 1])

\* (es * mask.unsqueeze(-1)).sum(1) and (logabsdet * mask).sum(1), where es
\* and logabsdet stack the outputs of all nclass flows on the whole batch.
MaskedEs(flows, c, x) ==
    LET stacked(r, k) == Flow(flows[k], x[r]).es
        mask(r)       == one_hot(c[r])
    IN [r \in DOMAIN x |->
          [d \in 1 .. s_dim |->
             SumAxis([k \in 0 .. nclass - 1 |-> FMul(stacked(r, k)[d], mask(r)[k])],
                     nclass)]]

MaskedLogabsdet(flows, c, x) ==
    LET stacked(r, k) == Flow(flows[k], x[r]).logabsdet
        mask(r)       == one_hot(c[r])
    IN [r \in DOMAIN x |->
          SumAxis([k \in 0 .. nclass - 1 |-> FMul(stacked(r, k), mask(r)[k])],
                  nclass)]

style_routing ==
    /\ es = <<>>
    /\ es' = MaskedEs(spline_list, batch_c, residuals)
    /\ logabsdet' = MaskedLogabsdet(spline_list, batch_c, residuals)
    /\ UNCHANGED <<config, tracker, last, spline_list, batch_c, residuals>>

DefaultConfig ==
    /\ decoder_dist = "gaussian"
    /\ optimizer = adam
    /\ beta = 2
    /\ gamma = 3

InitRouting ==
    /\ DefaultConfig
    /\ InitBests
    /\ InitLast
    /\ spline_list \in [0 .. nclass - 1 -> FlowParams]
    /\ \E batch_size \in 1 .. MaxBatch :
          /\ batch_c \in [1 .. batch_size -> 0 .. nclass - 1]
          /\ residuals \in [1 .. batch_size -> [1 .. s_dim -> ResidVals]]
    /\ es = <<>>
    /\ logabsdet = <<>>

SpecRouting == InitRouting /\ [][style_routing]_vars

\* ------------------------------------------------- the tracker on its own
InitTracker ==
    /\ DefaultConfig
    /\ InitBests
    /\ InitLast
    /\ NoRouting

NextTracker ==
    \E r2 \in R2Obs, mcc \in MccObs :
       /\ Len(history) < MaxSteps
       /\ validation_step(1, 1, 1, 1, r2, mcc)

SpecTracker == InitTracker /\ [][NextTracker]_vars

\* ==================================================================== claims
Steps == {"training_step", "validation_step"}

HasLog(n) == \E i \in DOMAIN sink : sink[i].name = n
Logged(n) == sink[CHOOSE i \in DOMAIN sink : sink[i].name = n].value

Last(h) == h[Len(h)]
ObsSum(o) == o.mcc + o.r2

\* C1: from the constructed state, whatever (r2, mcc) the validation steps
\* observe, best_r2 and best_mcc never decrease from one step to the next.
C1_BestsNeverDecrease ==
    [][best_r2' >= best_r2 /\ best_mcc' >= best_mcc]_vars

\* A step that observed less than both running bests, which are above 0.
C1_Witness ==
    /\ Len(history) >= 2
    /\ best_r2 > 0 /\ Last(history).r2 < best_r2
    /\ best_mcc > 0 /\ Last(history).mcc < best_mcc

\* The naive linear scan: the index of the largest mcc + r2, the latest one
\* on ties.
RECURSIVE ScanFrom(_, _, _)
ScanFrom(h, i, at) ==
    IF i > Len(h) THEN at
    ELSE ScanFrom(h, i + 1, IF ObsSum(h[i]) >= ObsSum(h[at]) THEN i ELSE at)

NaiveScan(h) == ScanFrom(h, 2, 1)

\* C2 as stated: after any non-empty sequence of validation steps,
\* (best_sum_mcc, best_sum_r2) is the (mcc, r2) of the step the naive scan
\* finds, also when every mcc + r2 is negative.
C2_MatchesNaiveScan ==
    Len(history) > 0 =>
        LET o == history[NaiveScan(history)] IN
        best_sum_mcc = o.mcc /\ best_sum_r2 = o.r2

\* C2 amended: the pair is the one the naive scan finds when that step's
\* mcc + r2 is at least 0 (the initial best_sum); when every mcc + r2 is
\* negative the pair keeps its constructed value (0, 0).
C2_MatchesNaiveScanFromZero ==
    Len(history) > 0 =>
        LET o == history[NaiveScan(history)] IN
        IF ObsSum(o) >= 0
        THEN best_sum_mcc = o.mcc /\ best_sum_r2 = o.r2
        ELSE best_sum_mcc = 0 /\ best_sum_r2 = 0

\* Two steps tie for the largest sum with different components, and a later
\* step observes less.
C2_Witness ==
    /\ Len(history) = 3
    /\ ObsSum(history[1]) = ObsSum(history[2])
    /\ history[1] # history[2]
    /\ ObsSum(history[1]) > 0
    /\ ObsSum(history[3]) < ObsSum(history[2])
    /\ best_sum_r2 = history[2].r2

\* C3: in each validation step, r2 >= best_r2 (equality included) replaces
\* best_r2 and mcc_at_best_r2 by the step's r2 and mcc, otherwise both are
\* unchanged; symmetrically mcc >= best_mcc for best_mcc and r2_at_best_mcc.
C3_StepUpdatesBests ==
    [][ Len(history') = Len(history) + 1 =>
          LET o == Last(history') IN
          /\ IF o.r2 >= best_r2
             THEN best_r2' = o.r2 /\ mcc_at_best_r2' = o.mcc
             ELSE UNCHANGED <<best_r2, mcc_at_best_r2>>
          /\ IF o.mcc >= best_mcc
             THEN best_mcc' = o.mcc /\ r2_at_best_mcc' = o.r2
             ELSE UNCHANGED <<best_mcc, r2_at_best_mcc>> ]_vars

\* A tie on mcc replaced the paired r2 by the latest observation.
C3_Witness ==
    /\ Len(history) >= 2
    /\ \E i \in 1 .. Len(history) - 1 :
          /\ history[i].mcc = Last(history).mcc
          /\ history[i].r2 # Last(history).r2
    /\ best_mcc = Last(history).mcc
    /\ best_mcc > 0
    /\ r2_at_best_mcc = Last(history).r2

TrackedField(n) ==
    CASE n = "best_r2"        -> best_r2
      [] n = "mcc_at_best_r2" -> mcc_at_best_r2
      [] n = "best_mcc"       -> best_mcc
      [] n = "r2_at_best_mcc" -> r2_at_best_mcc
      [] n = "best_sum"       -> best_sum
      [] n = "best_sum_mcc"   -> best_sum_mcc
      [] n = "best_sum_r2"    -> best_sum_r2

\* C4: every validation step that completes reports best_r2, mcc_at_best_r2,
\* best_mcc, r2_at_best_mcc, best_sum, best_sum_mcc and best_sum_r2 to the
\* logging sink with their values after the update.
C4_AllTrackedReported ==
    (call.op = "validation_step" /\ result.raised = "none") =>
        \A n \in {"best_r2", "mcc_at_best_r2", "best_mcc", "r2_at_best_mcc",
                  "best_sum", "best_sum_mcc", "best_sum_r2"} :
            \E i \in DOMAIN sink :
                sink[i].name = n /\ sink[i].value = TrackedField(n)

\* C6: the loss a training or validation step returns is
\* recon + beta * kld_content + gamma * kld_style of the three terms the
\* step logged, with the beta and gamma given at construction.
C6_Returned(prefix) ==
    /\ HasLog(prefix \o "_elbo_loss") /\ HasLog(prefix \o "_recon_loss")
    /\ HasLog(prefix \o "_kld_content") /\ HasLog(prefix \o "_kld_style")
    /\ result.value = Logged(prefix \o "_recon_loss")
                      + beta * Logged(prefix \o "_kld_content")
                      + gamma * Logged(prefix \o "_kld_style")
    /\ Logged(prefix \o "_elbo_loss") = result.value

C6_After ==
    /\ (call.op = "training_step" /\ result.raised = "none") => C6_Returned("train")
    /\ (call.op = "validation_step" /\ result.raised = "none") => C6_Returned("val")

C6_LossIsWeightedSum ==
    [][UNCHANGED <<beta, gamma>> /\ C6_After']_vars

\* A step that returned with both weights positive and a negative style KLD.
C6_Witness ==
    /\ call.op = "training_step" /\ result.raised = "none"
    /\ beta > 0 /\ gamma > 0
    /\ Logged("train_kld_style") < 0
    /\ Logged("train_kld_content") > 0

\* C7: a training or validation step on a batch with zero rows raises an
\* assertion error before any loss term: no reconstruction or KLD term is
\* computed, nothing is logged, nothing is returned, and the running bests
\* keep their values.
C7_ZeroBatchFailsFast ==
    [][ (call'.op \in Steps /\ call'.rows = 0) =>
          /\ result'.raised = "AssertionError"
          /\ sink' = <<>>
          /\ Range(events') \cap {"recon_loss", "kld_content", "kld_style", "loss"} = {}
          /\ UNCHANGED tracker ]_vars

\* A validation step on an empty batch after a step that set the bests.
C7_Witness ==
    /\ call.op = "validation_step" /\ call.rows = 0
    /\ result.raised = "AssertionError"
    /\ best_r2 > 0 /\ best_mcc > 0

\* C8: a decoder family other than gaussian, bernoulli or sigmoid_gaussian is
\* rejected at construction, so no training or validation step is ever
\* entered with an unsupported family.
C8_UnsupportedFamilyRejected ==
    call.op \in Steps => decoder_dist \in {"gaussian", "bernoulli", "sigmoid_gaussian"}

\* C9 as stated: exactly the names adam and rmsprop yield an optimizer (AdamW
\* and RMSprop) with an empty scheduler list; any other name fails with
\* NotImplementedError.
C9_ExactNames ==
    call.op = "configure_optimizers" =>
        IF optimizer = adam
        THEN result.raised = "none" /\ result.optimizers = <<"AdamW">>
             /\ result.schedulers = <<>>
        ELSE IF optimizer = rmsprop
        THEN result.raised = "none" /\ result.optimizers = <<"RMSprop">>
             /\ result.schedulers = <<>>
        ELSE result.raised = "NotImplementedError" /\ result.optimizers = <<>>

\* Two names that differ at most in the case of their ASCII letters.
SameLetter(a, b) ==
    \/ a = b
    \/ a \in 65 .. 90 /\ b = a + 32
    \/ b \in 65 .. 90 /\ a = b + 32

EqIgnoreCase(s, t) ==
    /\ Len(s) = Len(t)
    /\ \A i \in 1 .. Len(s) : SameLetter(s[i], t[i])

\* C9 amended: the name is compared ignoring letter case when
\* configure_optimizers is called: a name equal to adam or rmsprop up to case
\* yields AdamW or RMSprop with an empty scheduler list, and every other name
\* fails there with NotImplementedError, never falling back to an optimizer.
C9_NamesIgnoringCase ==
    call.op = "configure_optimizers" =>
        IF EqIgnoreCase(optimizer, adam)
        THEN result.raised = "none" /\ result.optimizers = <<"AdamW">>
             /\ result.schedulers = <<>>
        ELSE IF EqIgnoreCase(optimizer, rmsprop)
        THEN result.raised = "none" /\ result.optimizers = <<"RMSprop">>
             /\ result.schedulers = <<>>
        ELSE result.raised = "NotImplementedError" /\ result.optimizers = <<>>

\* configure_optimizers accepted a capitalised name.
C9_Witness ==
    /\ call.op = "configure_optimizers"
    /\ optimizer = Adam
    /\ result.optimizers = <<"AdamW">>

\* C10: the running bests change only in a validation_step that computed its
\* loss and metrics; training_step, forward, reparameterize,
\* reconstruction_loss and configure_optimizers leave them unchanged.
C10_OnlyValidationChangesBests ==
    [][ /\ bests' # bests =>
            /\ call'.op = "validation_step"
            /\ result'.raised = "none"
            /\ {"loss", "r2", "mcc"} \subseteq Range(events')
        /\ call'.op # "validation_step" => UNCHANGED tracker ]_vars

\* A training step that ran after the bests had been set, and kept them.
C10_Witness ==
    /\ call.op = "training_step"
    /\ result.raised = "none"
    /\ best_r2 > 0 /\ best_mcc > 0 /\ best_sum > 0

\* The explicit per-row gather: flow c[r] applied to row r.
Gather(r) == Flow(spline_list[batch_c[r]], residuals[r])

AllFlowsFinite(r) ==
    \A k \in 0 .. nclass - 1 :
        LET out == Flow(spline_list[k], residuals[r]) IN
        /\ out.logabsdet.k = "fin"
        /\ \A d \in 1 .. s_dim : out.es[d].k = "fin"

====
